---- MODULE Spec2Model ----
(***************************************************************************)
(* klipBored: clipboard poller, change tracker, bounded history and        *)
(* copy-back, modelled from src/src/main.rs.                               *)
(*                                                                         *)
(* Strings are sequences of Unicode code points; byte lengths are the      *)
(* UTF-8 lengths of those code points.                                     *)
(***************************************************************************)
EXTENDS Integers, Sequences, FiniteSets, TLC

\* ------------------------------------------------------------ bounds
\* External clipboard changes and button clicks the environment may make.
MaxEnv == 4
\* Granularity of the clock, in milliseconds.
TimeStep == 750
\* The same, in the specification with the wizard and the settings (SpecApp).
MaxApp == 3
\* The same, in the specification of the texts and images (SpecPoll).
MaxPoll == 3
\* Distinct texts copied one after the other in SpecPush and SpecFill, and
\* buttons clicked in SpecFill.
MaxFill == 52
MaxFillClicks == 1
\* Length of the free part of a preview input (after its padding).
MaxLen == 5

\* ------------------------------------------------- program constants
\* guard.len() > 50
Capacity == 50
\* Duration::from_millis(1500)
SuppressMs == 1500
\* Instant::now() - Duration::from_secs(5), in milliseconds
InitElapsedMs == 5000
\* let max_lines = 4; let max_chars = 300;
max_lines == 4
max_chars == 300

\* ------------------------------------------------------- characters
\* "\n", the line terminator of str::lines() and the separator of join; and
\* "\r", which lines() drops before a "\n"
LF == 10
CR == 13

Min(a, b) == IF a < b THEN a ELSE b

\* str::len(): the length in bytes of the UTF-8 encoding.
ByteLen(s) ==
    Len(s) + Cardinality({i \in 1..Len(s) : s[i] >= 128})
           + Cardinality({i \in 1..Len(s) : s[i] >= 2048})
           + Cardinality({i \in 1..Len(s) : s[i] >= 65536})

\* A mutant of TakeChars: the string is cut to n bytes, at a character
\* boundary.
TakeCharsByBytes(s, n) ==
    LET k == CHOOSE k \in 0..Len(s) :
                 /\ ByteLen(SubSeq(s, 1, k)) <= n
                 /\ k = Len(s) \/ ByteLen(SubSeq(s, 1, k + 1)) > n
    IN  SubSeq(s, 1, k)

\* s.chars().take(n).collect()
TakeChars(s, n) == SubSeq(s, 1, Min(n, Len(s)))

\* Positions of the line feeds of a text.
LineFeeds(text) == {i \in 1..Len(text) : text[i] = LF}

\* The k-th line feed of a text (k >= 1).
NthLineFeed(text, k) ==
    CHOOSE p \in LineFeeds(text) :
        Cardinality({q \in LineFeeds(text) : q <= p}) = k

\* Number of pieces of text.split_inclusive('\n'): one per line feed, and one
\* more for a non-empty rest after the last line feed.
PieceCount(text) ==
    Cardinality(LineFeeds(text))
        + (IF Len(text) > 0 /\ text[Len(text)] # LF THEN 1 ELSE 0)

\* The k-th item of str::lines(): the k-th piece without its "\n", and then
\* without one "\r" that stood before that "\n". A last piece that has no
\* "\n" is returned as it is.
LineOf(text, k) ==
    LET n     == Cardinality(LineFeeds(text))
        first == IF k = 1 THEN 1 ELSE NthLineFeed(text, k - 1) + 1
    IN  IF k <= n
        THEN LET last == NthLineFeed(text, k) - 1
             IN  IF last >= first /\ text[last] = CR
                 THEN SubSeq(text, first, last - 1)
                 ELSE SubSeq(text, first, last)
        ELSE SubSeq(text, first, Len(text))

\* text.lines().collect()
Lines(text) == [k \in 1..PieceCount(text) |-> LineOf(text, k)]

\* lines.join("\n")
RECURSIVE JoinLF(_)
JoinLF(lines) ==
    IF Len(lines) = 0 THEN <<>>
    ELSE IF Len(lines) = 1 THEN lines[1]
    ELSE lines[1] \o <<LF>> \o JoinLF(Tail(lines))

\* fn compact_preview(text: &str) -> String
compact_preview(text) ==
    LET all    == Lines(text)
        lines  == IF Len(all) > max_lines THEN SubSeq(all, 1, max_lines) ELSE all
        result == JoinLF(lines)
    IN  IF ByteLen(result) > max_chars THEN TakeChars(result, max_chars) ELSE result

\* s is a prefix of t
IsPrefix(s, t) == Len(s) <= Len(t) /\ SubSeq(t, 1, Len(s)) = s


\* --------------------------------------------------------- contents
\* fn calculate_hash<T: Hash>(t: &T) -> u64 over a byte slice: the length is
\* hashed first, then the bytes. DefaultHasher is a fixed-key hash; it is
\* modelled by a polynomial hash of the same inputs, reduced so that the
\* products stay in range.
HashMod == 32749
RECURSIVE HashBytes(_, _)
HashBytes(h, bytes) ==
    IF Len(bytes) = 0 THEN h
    ELSE HashBytes((h * 31 + Head(bytes) + 1) % HashMod, Tail(bytes))

calculate_hash(bytes) == HashBytes((Len(bytes) + 7) % HashMod, bytes)

\* ClipboardContent::Text { full, display }, as the poll closure builds it
TextContent(text) ==
    [kind |-> "Text", full |-> text, display |-> compact_preview(text)]

\* ClipboardContent::Image { texture, raw }; the texture is a function of raw
\* (raw_to_texture) and is not kept apart from it.
ImageContent(img) == [kind |-> "Image", raw |-> img]

\* struct ImageDataOwned { width, height, data }
Img1 == [width |-> 1, height |-> 1, data |-> <<255, 0, 0, 255>>]
Img2 == [width |-> 1, height |-> 1, data |-> <<0, 0, 255, 255>>]
ImgEmpty == [width |-> 0, height |-> 0, data |-> <<>>]

\* The texts "a" and "b"
TxtA == <<97>>
TxtB == <<98>>

\* An Option is a sequence of at most one item.
None == <<>>
Some(x) == <<x>>

\* The key bindings of the wizard buttons: "<Super>v" and "<Control><Shift>v"
SuperV == <<60, 83, 117, 112, 101, 114, 62, 118>>
ControlShiftV ==
    <<60, 67, 111, 110, 116, 114, 111, 108, 62, 60, 83, 104, 105, 102, 116, 62, 118>>

\* What may be typed in the entry of the manual binding: nothing, "x", "<A>"
\* and "<A>c"
ManualTexts == {<<>>, <<120>>, <<60, 65, 62>>, <<60, 65, 62, 99>>}

\* char::is_whitespace, on the characters below U+0080
IsSpace(c) == c \in {9, 10, 11, 12, 13, 32}

\* str::trim().is_empty()
TrimIsEmpty(text) == \A i \in 1..Len(text) : IsSpace(text[i])

\* The OS clipboard: the text and the image it offers, and who wrote it last:
\* "ext" another program, "own" a copy-back worker of this program, "own_late"
\* such a worker when another program has changed the clipboard since the
\* copy-back was asked for.
Clip(text, img, by) == [text |-> text, img |-> img, by |-> by]

\* What another program may put on the clipboard: a text, another text, an
\* image.
CoreClips ==
    { Clip(Some(TxtA), None, "ext"),
      Clip(Some(TxtB), None, "ext"),
      Clip(None, Some(Img1), "ext") }

\* The two texts alone.
TextClips == {Clip(Some(TxtA), None, "ext"), Clip(Some(TxtB), None, "ext")}

\* The same, and a text together with an image, and an empty text together
\* with an image of no bytes.
ExternalClips ==
    { Clip(Some(TxtA), None, "ext"),
      Clip(Some(TxtB), None, "ext"),
      Clip(None, Some(Img1), "ext"),
      Clip(Some(TxtB), Some(Img2), "ext"),
      Clip(Some(<<>>), Some(ImgEmpty), "ext") }

\* ------------------------------------------------------------ state
VARIABLES
    clipboard_entries,  \* KlipBoredModel.clipboard_entries: front first, each
                        \* entry with the uid of its row and its content
    dyn_index,          \* uid -> value of that row's DynamicIndex; rows get
                        \* the uids 1, 2, ... in the order they are made
    tracker,            \* ClipboardTracker: last_text, last_img_hash and
                        \* own_age = last_own_copy.elapsed(), which the code
                        \* only compares with 1500 ms and so is kept up to that
    inbox,              \* messages sent to the component, not yet handled
    workers,            \* copy-back threads spawned and not yet run: the
                        \* content each captured, and (history) whether no
                        \* other program has changed the clipboard since
    os_clip,            \* the OS clipboard
    win_visible,        \* the window is shown
    setup_done,         \* KlipBoredModel.setup_done
    current_page,       \* KlipBoredModel.current_page
    current_binding,    \* KlipBoredModel.current_binding
    manual_binding,     \* KlipBoredModel.manual_binding
    binding_status,     \* KlipBoredModel.binding_status
    autostart_enabled,  \* KlipBoredModel.autostart_enabled
    config_file,        \* the keybinding file: None or Some(content)
    autostart_file,     \* the autostart desktop file exists
    poll_flow,          \* what the last run of the poll closure returned to
                        \* the timer: "Continue" keeps the timer, "Break" ends it
    n_env,              \* external clipboard changes and clicks made so far
    last_emitted,       \* history: content of the last new-item event, if any
    seen_text,          \* history: text of the last Text event, unless a
                        \* copy-back has primed the tracker since
    last_op,            \* history: what the last step did
    deleted_current     \* history: the content of an entry that was deleted
                        \* while it was the current content of the clipboard,
                        \* no other program having changed the clipboard since

core_vars == <<clipboard_entries, dyn_index, tracker, inbox, workers,
               os_clip, win_visible>>
ui_vars == <<setup_done, current_page, current_binding, manual_binding,
             binding_status, autostart_enabled, config_file, autostart_file>>
hist_vars == <<last_emitted, seen_text, last_op, deleted_current>>
vars == <<core_vars, ui_vars, poll_flow, n_env, hist_vars>>

\* fn has_keybinding() -> bool
has_keybinding == config_file # None /\ ~TrimIsEmpty(config_file[1])

\* fn get_keybinding() -> String
get_keybinding == IF config_file # None THEN config_file[1] ELSE SuperV

\* fn is_autostart_enabled() -> bool
is_autostart_enabled == autostart_file

\* The state after KlipBoredModel::init with the keybinding file holding
\* `file`, the autostart file existing or not, and the clipboard holding
\* `clip`.
InitWith(file, auto, clip) ==
    /\ config_file = file
    /\ autostart_file = auto
    /\ poll_flow = "Continue"
    /\ setup_done = has_keybinding
    /\ tracker = [last_text |-> <<>>, last_img_hash |-> 0,
                  own_age |-> Min(InitElapsedMs, SuppressMs)]
    /\ clipboard_entries = <<>>
    /\ dyn_index = <<>>
    /\ current_page = IF has_keybinding THEN "clipboard" ELSE "wizard"
    /\ autostart_enabled = is_autostart_enabled
    /\ current_binding = get_keybinding
    /\ manual_binding = <<>>
    /\ binding_status = "ok"
    /\ win_visible = ~has_keybinding
    /\ inbox = <<>>
    /\ workers = <<>>
    /\ os_clip = clip
    /\ n_env = 0
    /\ last_emitted = None
    /\ seen_text = None
    /\ last_op = [op |-> "init"]
    /\ deleted_current = None

EmptyClip == Clip(None, None, "ext")

\* Start with the setup complete and an empty clipboard.
Init == InitWith(Some(SuperV), FALSE, EmptyClip)


\* ---------------------------------------------------- history store
\* A mutant of PushFront: the entry is put behind the others.
PushFrontAtBack(entries, entry) == entries \o <<entry>>

\* guard.push_front(content)
PushFront(entries, entry) == <<entry>> \o entries

\* A mutant of PopBack: the front entry is removed.
PopBackFront(entries) == Tail(entries)

\* guard.pop_back()
PopBack(entries) == SubSeq(entries, 1, Len(entries) - 1)

\* A mutant of OverCapacity: one entry too many is let in.
OverCapacityLate(entries) == Len(entries) > Capacity + 1

\* if guard.len() > 50
OverCapacity(entries) == Len(entries) > Capacity

\* A mutant of RemoveAt: the entry after the one asked for is removed.
RemoveAtNext(entries, index) ==
    IF index + 1 < Len(entries)
    THEN SubSeq(entries, 1, index + 1) \o SubSeq(entries, index + 3, Len(entries))
    ELSE IF index < Len(entries) THEN SubSeq(entries, 1, index) ELSE entries

\* A mutant of RemoveAt: an index out of range removes the last entry.
RemoveAtClamped(entries, index) ==
    IF Len(entries) = 0 THEN entries
    ELSE IF index < Len(entries)
    THEN SubSeq(entries, 1, index) \o SubSeq(entries, index + 2, Len(entries))
    ELSE SubSeq(entries, 1, Len(entries) - 1)

\* guard.remove(index): index counts from 0; None, and no change, when it is
\* out of range.
RemoveAt(entries, index) ==
    IF index < Len(entries)
    THEN SubSeq(entries, 1, index) \o SubSeq(entries, index + 2, Len(entries))
    ELSE entries

\* A mutant of GetAt: an index out of range gives the back entry.
GetAtClamped(entries, index) ==
    IF index < Len(entries) THEN Some(entries[index + 1])
    ELSE IF Len(entries) > 0 THEN Some(entries[Len(entries)])
    ELSE None

\* self.clipboard_entries.get(index)
GetAt(entries, index) ==
    IF index < Len(entries) THEN Some(entries[index + 1]) ELSE None

\* The DynamicIndex values once the guard is dropped: a row of the list holds
\* its position, a row that was removed keeps the value it had when removed
\* (bumped by an insertion before it, for the row that insertion evicted).
Reindex(idx, entries, before) ==
    [u \in DOMAIN idx |->
        IF \E i \in 1..Len(entries) : entries[i].uid = u
        THEN (CHOOSE i \in 1..Len(entries) : entries[i].uid = u) - 1
        ELSE IF \E i \in 1..Len(before) : before[i].uid = u
        THEN (CHOOSE i \in 1..Len(before) : before[i].uid = u) - 1
        ELSE idx[u]]

\* --------------------------------------------------- change tracker
\* A mutant of Suppressed: a tick at exactly 1500 ms is skipped too.
SuppressedInclusive(state) == state.own_age <= SuppressMs

\* if state.last_own_copy.elapsed() < Duration::from_millis(1500)
Suppressed(state) == state.own_age < SuppressMs

\* A mutant of TextIsNew: the text is not compared with last_text.
TextIsNewNoDedup(text, state) == text # <<>>

\* if !text.is_empty() && text != state.last_text
TextIsNew(text, state) == text # <<>> /\ text # state.last_text

\* A mutant of ImageIsNew: the length of the data is not looked at.
ImageIsNewAnyLength(img, state) ==
    calculate_hash(img.data) # state.last_img_hash

\* let h = calculate_hash(&img.bytes); if img.bytes.len() > 0 && h != state.last_img_hash
ImageIsNew(img, state) ==
    Len(img.data) > 0 /\ calculate_hash(img.data) # state.last_img_hash

\* The tracker update of RequestCopy: last_own_copy = Instant::now(), and
\* last_text or last_img_hash from the content.
Prime(state, content) ==
    IF content.kind = "Text"
    THEN [state EXCEPT !.own_age = 0, !.last_text = content.full]
    ELSE [state EXCEPT !.own_age = 0,
                       !.last_img_hash = calculate_hash(content.raw.data)]

\* A mutant of TickOutcome: the poller runs while the setup is not complete.
TickOutcomeNoGate(cb, text, img) ==
    IF Suppressed(tracker) THEN "suppressed"
    ELSE IF ~cb THEN "noclip"
    ELSE IF text # None /\ TextIsNew(text[1], tracker) THEN "text"
    ELSE IF img # None /\ ImageIsNew(img[1], tracker) THEN "image"
    ELSE "nothing"

\* A mutant of TickOutcome: the image is examined before the text.
TickOutcomeImageFirst(cb, text, img) ==
    IF ~setup_done THEN "setup"
    ELSE IF Suppressed(tracker) THEN "suppressed"
    ELSE IF ~cb THEN "noclip"
    ELSE IF img # None /\ ImageIsNew(img[1], tracker) THEN "image"
    ELSE IF text # None /\ TextIsNew(text[1], tracker) THEN "text"
    ELSE "nothing"

\* What one run of the poll closure does, from what the clipboard gives it:
\* cb is Clipboard::new() succeeding, text and img are get_text() and
\* get_image() as Options.
TickOutcome(cb, text, img) ==
    IF ~setup_done THEN "setup"
    ELSE IF Suppressed(tracker) THEN "suppressed"
    ELSE IF ~cb THEN "noclip"
    ELSE IF text # None /\ TextIsNew(text[1], tracker) THEN "text"
    ELSE IF img # None /\ ImageIsNew(img[1], tracker) THEN "image"
    ELSE "nothing"

\* A mutant of TrackerAfterTick: a run that emits nothing forgets last_text.
TrackerAfterTickForgetting(state, outcome, text, img) ==
    IF outcome = "text" THEN [state EXCEPT !.last_text = text[1]]
    ELSE IF outcome = "image"
    THEN [state EXCEPT !.last_img_hash = calculate_hash(img[1].data)]
    ELSE IF outcome = "nothing" THEN [state EXCEPT !.last_text = <<>>]
    ELSE state

\* The tracker after a run of the poll closure: state.last_text = text.clone()
\* where it emits a Text event, state.last_img_hash = h where it emits an Image
\* event, and nothing on the other paths.
TrackerAfterTick(state, outcome, text, img) ==
    IF outcome = "text" THEN [state EXCEPT !.last_text = text[1]]
    ELSE IF outcome = "image"
    THEN [state EXCEPT !.last_img_hash = calculate_hash(img[1].data)]
    ELSE state

\* A mutant of TickFlow: a run that gets no clipboard handle ends the timer.
TickFlowBreakOnFailure(outcome) ==
    IF outcome = "noclip" THEN "Break" ELSE "Continue"

\* A mutant of TickFlow: a run inside the suppression window ends the timer.
TickFlowBreakWhenSuppressed(outcome) ==
    IF outcome = "suppressed" THEN "Break" ELSE "Continue"

\* What the poll closure returns to the timer: glib::ControlFlow::Continue on
\* each of its paths.
TickFlow(outcome) == "Continue"

\* The run got nothing from the clipboard: no handle, or neither a text nor an
\* image.
AccessFailed(cb, text, img) == ~cb \/ (text = None /\ img = None)


\* ------------------------------------------------------ environment
\* Another program changes the clipboard.
ExternalCopy(clip) ==
    /\ n_env < MaxEnv
    /\ clip.text # os_clip.text \/ clip.img # os_clip.img
    /\ os_clip' = clip
    /\ workers' = [w \in DOMAIN workers |-> [workers[w] EXCEPT !.clean = FALSE]]
    /\ n_env' = n_env + 1
    /\ deleted_current' = None
    /\ UNCHANGED <<clipboard_entries, dyn_index, tracker, inbox, win_visible,
                   ui_vars, poll_flow, last_emitted, seen_text, last_op>>

\* Time passes. Only last_own_copy.elapsed() reads the clock.
Advance ==
    /\ tracker.own_age < SuppressMs
    /\ tracker' = [tracker EXCEPT !.own_age = Min(@ + TimeStep, SuppressMs)]
    /\ UNCHANGED <<clipboard_entries, dyn_index, inbox, workers, os_clip,
                   win_visible, ui_vars, poll_flow, n_env, hist_vars>>

\* app.connect_activate: the shortcut shows the window, or hides it when it is
\* shown and has the focus.
Activate(active) ==
    /\ win_visible' = IF ~has_keybinding THEN TRUE
                      ELSE IF win_visible /\ active THEN FALSE ELSE TRUE
    /\ win_visible' # win_visible
    /\ UNCHANGED <<clipboard_entries, dyn_index, tracker, inbox, workers,
                   os_clip, ui_vars, poll_flow, n_env, hist_vars>>

\* focus_controller.connect_leave: a shown window that lost the focus is hidden.
FocusLeave ==
    /\ win_visible
    /\ win_visible' = FALSE
    /\ UNCHANGED <<clipboard_entries, dyn_index, tracker, inbox, workers,
                   os_clip, ui_vars, poll_flow, n_env, hist_vars>>

\* The copy or the delete button of the row at position pos (from 1) is
\* clicked: the row sends its DynamicIndex, forwarded as a message. A hidden
\* window can be shown again before any click (Activate), so the visibility
\* of the window is no guard of a click.
Click(type, pos) ==
    /\ current_page = "clipboard"
    /\ n_env < MaxEnv
    /\ pos \in 1..Len(clipboard_entries)
    /\ inbox' = Append(inbox, [type |-> type, index |-> clipboard_entries[pos].uid])
    /\ n_env' = n_env + 1
    /\ UNCHANGED <<clipboard_entries, dyn_index, tracker, workers, os_clip,
                   win_visible, ui_vars, poll_flow, hist_vars>>

\* The messages the widgets of the wizard, of the header and of the settings
\* send.
UiMessages ==
    {[type |-> t] : t \in {"WizardAccept", "WizardShowCustom", "OpenSettings",
                            "BackToClipboard", "ApplyManualBinding"}}
        \cup {[type |-> "WizardApplyBinding", binding |-> b] :
                  b \in {SuperV, ControlShiftV}}
        \cup {[type |-> "ToggleAutostart", enabled |-> e] : e \in BOOLEAN}
        \cup {[type |-> "UpdateManualBinding", text |-> t] : t \in ManualTexts}

\* The widget that sends msg is on the page shown, visible and sensitive, and
\* for an entry or a switch the value is a new one.
Offered(msg) ==
    CASE msg.type = "WizardAccept" -> current_page = "wizard"
      [] msg.type = "WizardShowCustom" -> current_page \in {"wizard", "settings"}
      [] msg.type = "WizardApplyBinding" -> current_page = "wizard_custom"
      [] msg.type = "UpdateManualBinding" ->
             current_page = "wizard_custom" /\ msg.text # manual_binding
      [] msg.type = "ApplyManualBinding" ->
             /\ current_page = "wizard_custom"
             /\ manual_binding # <<>>
             /\ binding_status # "error"
      [] msg.type = "BackToClipboard" ->
             current_page \in {"settings", "wizard_custom"}
      [] msg.type = "OpenSettings" -> current_page = "clipboard"
      [] msg.type = "ToggleAutostart" ->
             current_page = "settings" /\ msg.enabled # autostart_enabled

\* A button of the wizard, of the header or of the settings is clicked, the
\* switch is flipped or the entry is edited: the widget sends its message.
Press(msg) ==
    /\ n_env < MaxEnv
    /\ Offered(msg)
    /\ inbox' = Append(inbox, msg)
    /\ n_env' = n_env + 1
    /\ UNCHANGED <<clipboard_entries, dyn_index, tracker, workers, os_clip,
                   win_visible, ui_vars, poll_flow, hist_vars>>

\* ------------------------------------------------------------ poller
\* What Clipboard::new(), get_text() and get_image() may give one run of the
\* poll closure: no handle; or a handle, and for each kind what the clipboard
\* holds of it or an error.
Reads ==
    {[cb |-> FALSE, text |-> None, img |-> None]}
        \cup {[cb |-> TRUE, text |-> t, img |-> i] :
                   t \in {None, os_clip.text}, i \in {None, os_clip.img}}

\* glib::timeout_add_local(800 ms, ...): one run of the closure, which the
\* timer makes as long as the run before returned Continue.
Tick(cb, text, img) ==
    LET outcome == TickOutcome(cb, text, img)
    IN  /\ poll_flow = "Continue"
        /\ poll_flow' = TickFlow(outcome)
        /\ tracker' = TrackerAfterTick(tracker, outcome, text, img)
        /\ inbox' =
            IF outcome = "text"
            THEN Append(inbox, [type |-> "NewItem", content |-> TextContent(text[1])])
            ELSE IF outcome = "image"
            THEN Append(inbox, [type |-> "NewItem", content |-> ImageContent(img[1])])
            ELSE inbox
        /\ last_emitted' =
            IF outcome = "text" THEN Some(TextContent(text[1]))
            ELSE IF outcome = "image" THEN Some(ImageContent(img[1]))
            ELSE last_emitted
        /\ seen_text' = IF outcome = "text" THEN Some(text[1]) ELSE seen_text
        /\ last_op' =
               [op |-> "Tick", outcome |-> outcome, text |-> text, img |-> img,
                failed |-> outcome \in {"noclip", "nothing"}
                               /\ AccessFailed(cb, text, img),
                retry |-> last_op.op = "Tick" /\ last_op.failed,
                held |-> [text |-> os_clip.text, img |-> os_clip.img]]
        /\ UNCHANGED <<clipboard_entries, dyn_index, workers, os_clip,
                       win_visible, ui_vars, n_env, deleted_current>>

\* ------------------------------------------------- KlipBoredModel::update
\* KlipBoredMsg::NewItem(content)
HandleNewItem(content) ==
    LET uid    == Len(dyn_index) + 1
        pushed == PushFront(clipboard_entries, [uid |-> uid, content |-> content])
        after  == IF OverCapacity(pushed) THEN PopBack(pushed) ELSE pushed
    IN  /\ clipboard_entries' = after
        /\ dyn_index' = Reindex(Append(dyn_index, 0), after, pushed)
        /\ last_op' = [op |-> "NewItem", evicted |-> OverCapacity(pushed)]
        /\ UNCHANGED <<tracker, workers, os_clip, win_visible, ui_vars, n_env,
                       last_emitted, seen_text, deleted_current>>

\* The clipboard holds this content and the tracker holds it as the content
\* detected last: it is still the current content, and nothing new is there to
\* detect.
OnClipboard(content) ==
    IF content.kind = "Text"
    THEN os_clip.text = Some(content.full) /\ tracker.last_text = content.full
    ELSE /\ os_clip.text = None
         /\ os_clip.img = Some(content.raw)
         /\ tracker.last_img_hash = calculate_hash(content.raw.data)

\* KlipBoredMsg::DeleteItem(index)
HandleDeleteItem(index) ==
    LET at    == dyn_index[index]
        after == RemoveAt(clipboard_entries, at)
    IN  /\ clipboard_entries' = after
        /\ dyn_index' = Reindex(dyn_index, after, clipboard_entries)
        /\ last_op' = [op |-> "DeleteItem",
                       in_range |-> at < Len(clipboard_entries)]
        /\ deleted_current' =
               IF at < Len(clipboard_entries)
                      /\ OnClipboard(clipboard_entries[at + 1].content)
               THEN Some(clipboard_entries[at + 1].content)
               ELSE deleted_current
        /\ UNCHANGED <<tracker, workers, os_clip, win_visible, ui_vars, n_env,
                       last_emitted, seen_text>>

\* The tracker holds the self-write of this content, made just now.
IsPrimed(state, content) ==
    /\ state.own_age = 0
    /\ content.kind = "Text" => state.last_text = content.full
    /\ content.kind = "Image" => state.last_img_hash = calculate_hash(content.raw.data)

\* A mutant of CopyBackSteps: the thread is spawned first.
CopyBackSpawnFirst == <<"spawn", "prime", "hide">>

\* The statements of RequestCopy once it has its entry, in program order: the
\* block that updates the tracker, win.set_visible(false), std::thread::spawn.
CopyBackSteps == <<"prime", "hide", "spawn">>

\* The tracker, the window and the threads after these statements, run in
\* their order on st. A thread captures the content; it is recorded (history)
\* whether the tracker held its self-write and the window was hidden when it
\* was spawned.
RECURSIVE RunCopyBack(_, _, _)
RunCopyBack(steps, st, content) ==
    IF steps = <<>> THEN st
    ELSE LET step == Head(steps)
             next ==
                 IF step = "prime"
                 THEN [st EXCEPT !.tracker = Prime(st.tracker, content)]
                 ELSE IF step = "hide"
                 THEN [st EXCEPT !.win_visible = FALSE]
                 ELSE [st EXCEPT !.workers =
                          Append(st.workers,
                                 [content |-> content, clean |-> TRUE,
                                  primed |-> IsPrimed(st.tracker, content),
                                  hidden |-> ~st.win_visible])]
         IN  RunCopyBack(Tail(steps), next, content)

\* A mutant of EntriesAfterCopy: the entry copied back is moved to the front.
EntriesAfterCopyToFront(entries, at) ==
    IF at < Len(entries)
    THEN <<entries[at + 1]>> \o RemoveAt(entries, at)
    ELSE entries

\* The history after RequestCopy: the handler only reads it
\* (self.clipboard_entries.get).
EntriesAfterCopy(entries, at) == entries

\* KlipBoredMsg::RequestCopy(index)
HandleRequestCopy(index) ==
    LET at    == dyn_index[index]
        entry == GetAt(clipboard_entries, at)
        after == EntriesAfterCopy(clipboard_entries, at)
    IN  /\ clipboard_entries' = after
        /\ dyn_index' = Reindex(dyn_index, after, clipboard_entries)
        /\ IF entry = None
           THEN /\ last_op' = [op |-> "RequestCopy", found |-> FALSE]
                /\ UNCHANGED <<tracker, workers, win_visible, seen_text>>
           ELSE LET st == RunCopyBack(CopyBackSteps,
                                      [tracker |-> tracker,
                                       win_visible |-> win_visible,
                                       workers |-> workers],
                                      entry[1].content)
                IN  /\ tracker' = st.tracker
                    /\ win_visible' = st.win_visible
                    /\ workers' = st.workers
                    /\ seen_text' = None
                    /\ last_op' = [op |-> "RequestCopy", found |-> TRUE]
        /\ UNCHANGED <<os_clip, ui_vars, n_env, last_emitted, deleted_current>>

\* fn save_keybinding(binding: &str): the content of the file afterwards; the
\* result of fs::write is dropped, so a write that fails (io false) leaves the
\* file as it was.
save_keybinding(binding, io) == IF io THEN Some(binding) ELSE config_file

\* fn set_autostart(enabled: bool): whether the autostart file exists
\* afterwards; the results of fs::copy and fs::remove_file are dropped, and
\* there may be no desktop file to copy (io false).
set_autostart(enabled, io) ==
    IF enabled THEN autostart_file \/ io ELSE autostart_file /\ ~io

\* KlipBoredMsg::WizardAccept
HandleWizardAccept(io) ==
    /\ config_file' = save_keybinding(SuperV, io)
    /\ setup_done' = TRUE
    /\ current_page' = "clipboard"
    /\ win_visible' = FALSE
    /\ UNCHANGED <<current_binding, manual_binding, binding_status,
                   autostart_enabled, autostart_file>>

\* KlipBoredMsg::WizardShowCustom
HandleWizardShowCustom ==
    /\ current_page' = "wizard_custom"
    /\ UNCHANGED <<win_visible, setup_done, current_binding, manual_binding,
                   binding_status, autostart_enabled, config_file,
                   autostart_file>>

\* KlipBoredMsg::WizardApplyBinding(binding)
HandleWizardApplyBinding(binding, io) ==
    /\ config_file' = save_keybinding(binding, io)
    /\ current_binding' = binding
    /\ setup_done' = TRUE
    /\ IF current_page = "wizard_custom"
       THEN current_page' = "clipboard" /\ win_visible' = FALSE
       ELSE current_page' = "settings" /\ win_visible' = win_visible
    /\ UNCHANGED <<manual_binding, binding_status, autostart_enabled,
                   autostart_file>>

\* KlipBoredMsg::OpenSettings
HandleOpenSettings ==
    /\ current_page' = "settings"
    /\ autostart_enabled' = is_autostart_enabled
    /\ UNCHANGED <<win_visible, setup_done, current_binding, manual_binding,
                   binding_status, config_file, autostart_file>>

\* KlipBoredMsg::ToggleAutostart(enabled)
HandleToggleAutostart(enabled, io) ==
    /\ autostart_file' = set_autostart(enabled, io)
    /\ autostart_enabled' = enabled
    /\ UNCHANGED <<win_visible, setup_done, current_page, current_binding,
                   manual_binding, binding_status, config_file>>

\* KlipBoredMsg::BackToClipboard
HandleBackToClipboard ==
    /\ current_page' = IF current_page = "wizard_custom" /\ ~setup_done
                       THEN "wizard" ELSE "clipboard"
    /\ UNCHANGED <<win_visible, setup_done, current_binding, manual_binding,
                   binding_status, autostart_enabled, config_file,
                   autostart_file>>

\* text.contains('<') && text.contains('>') && text.len() > 3
LooksLikeBinding(text) ==
    /\ \E i \in 1..Len(text) : text[i] = 60
    /\ \E i \in 1..Len(text) : text[i] = 62
    /\ ByteLen(text) > 3

\* KlipBoredMsg::UpdateManualBinding(text)
HandleUpdateManualBinding(text) ==
    /\ manual_binding' = text
    /\ binding_status' = IF text = <<>> THEN "ok"
                         ELSE IF LooksLikeBinding(text) THEN "ok"
                         ELSE "error"
    /\ UNCHANGED <<win_visible, setup_done, current_page, current_binding,
                   autostart_enabled, config_file, autostart_file>>

\* KlipBoredMsg::ApplyManualBinding: it changes nothing and sends
\* WizardApplyBinding (see Sent).
HandleApplyManualBinding ==
    UNCHANGED <<win_visible, ui_vars>>

\* What the handler of a message sends to the component itself:
\* sender.input(KlipBoredMsg::WizardApplyBinding(binding)) in ApplyManualBinding.
Sent(msg) ==
    IF msg.type = "ApplyManualBinding"
    THEN <<[type |-> "WizardApplyBinding", binding |-> manual_binding]>>
    ELSE <<>>

\* The handlers of the wizard and of the settings.
HandleUi(msg, io) ==
    /\ CASE msg.type = "WizardAccept" -> HandleWizardAccept(io)
         [] msg.type = "WizardShowCustom" -> HandleWizardShowCustom
         [] msg.type = "WizardApplyBinding" -> HandleWizardApplyBinding(msg.binding, io)
         [] msg.type = "OpenSettings" -> HandleOpenSettings
         [] msg.type = "ToggleAutostart" -> HandleToggleAutostart(msg.enabled, io)
         [] msg.type = "BackToClipboard" -> HandleBackToClipboard
         [] msg.type = "UpdateManualBinding" -> HandleUpdateManualBinding(msg.text)
         [] msg.type = "ApplyManualBinding" -> HandleApplyManualBinding
    /\ last_op' = [op |-> msg.type]
    /\ UNCHANGED <<clipboard_entries, dyn_index, tracker, workers, os_clip,
                   n_env, last_emitted, seen_text, deleted_current>>

\* The component handles the message at the head of its queue. io is whether
\* the file operation of the handler, if it makes one, succeeds.
Update ==
    /\ inbox # <<>>
    /\ inbox' = Tail(inbox) \o Sent(Head(inbox))
    /\ poll_flow' = poll_flow
    /\ LET msg == Head(inbox)
       IN  CASE msg.type = "NewItem" -> HandleNewItem(msg.content)
             [] msg.type = "DeleteItem" -> HandleDeleteItem(msg.index)
             [] msg.type = "RequestCopy" -> HandleRequestCopy(msg.index)
             [] OTHER -> \E io \in BOOLEAN : HandleUi(msg, io)

\* ------------------------------------------------- copy-back worker
\* The thread of std::thread::spawn: it opens the clipboard, writes the content
\* it captured, sleeps 600 ms and ends; it reads and writes nothing else, so
\* its run is one step. cb is Clipboard::new() succeeding, set is set_text /
\* set_image succeeding. workers holds the threads that have not run yet.
\* A mutant of Captured: the thread takes the front entry of the history as it
\* is when it writes.
CapturedLive(w) ==
    IF clipboard_entries # <<>> THEN clipboard_entries[1].content
    ELSE workers[w].content

\* The content the thread w writes: the clone that `move` took into the
\* closure when it was spawned.
Captured(w) == workers[w].content

WorkerRun(w, cb, set) ==
    /\ w \in DOMAIN workers
    /\ LET content == Captured(w)
           by      == IF workers[w].clean THEN "own" ELSE "own_late"
       IN  os_clip' =
               IF cb /\ set
               THEN IF content.kind = "Text"
                    THEN Clip(Some(content.full), None, by)
                    ELSE Clip(None, Some(content.raw), by)
               ELSE os_clip
    /\ workers' = SubSeq(workers, 1, w - 1) \o SubSeq(workers, w + 1, Len(workers))
    /\ last_op' = [op |-> "WorkerRun", worker |-> workers[w], wrote |-> cb /\ set]
    /\ UNCHANGED <<clipboard_entries, dyn_index, tracker, inbox, win_visible,
                   ui_vars, poll_flow, n_env, last_emitted, seen_text,
                   deleted_current>>

\* ---------------------------------------------------- specification
Next ==
    \/ \E clip \in CoreClips : ExternalCopy(clip)
    \/ Advance
    \/ \E type \in {"RequestCopy", "DeleteItem"}, pos \in 1..Len(clipboard_entries) :
           Click(type, pos)
    \/ \E read \in Reads : Tick(read.cb, read.text, read.img)
    \/ Update
    \/ \E w \in 1..Len(workers), cb \in BOOLEAN, set \in BOOLEAN :
           WorkerRun(w, cb, set)

Spec == Init /\ [][Next]_vars


\* ------------------------------------------------ the window shown
\* Texts are copied, and the rows are clicked while the window is shown by
\* the shortcut or hidden by the shortcut or the loss of the focus.
NextWindow ==
    \/ \E clip \in TextClips : ExternalCopy(clip)
    \/ Advance
    \/ \E type \in {"RequestCopy", "DeleteItem"}, pos \in 1..Len(clipboard_entries) :
           Click(type, pos)
    \/ \E read \in Reads : Tick(read.cb, read.text, read.img)
    \/ Update
    \/ \E w \in 1..Len(workers), cb \in BOOLEAN, set \in BOOLEAN :
           WorkerRun(w, cb, set)
    \/ \E active \in BOOLEAN : Activate(active)
    \/ FocusLeave

SpecWindow == Init /\ [][NextWindow]_vars

\* ------------------------------------ the wizard and the settings
\* The program starts with or without a usable keybinding file.
InitApp ==
    \E file \in {None, Some(<<32>>), Some(SuperV)} :
        InitWith(file, FALSE, EmptyClip)

\* All of the program: the clipboard, the poller, the rows, the wizard and
\* the settings.
NextApp ==
    \/ \E clip \in CoreClips : n_env < MaxApp /\ ExternalCopy(clip)
    \/ Advance
    \/ \E type \in {"RequestCopy", "DeleteItem"}, pos \in 1..Len(clipboard_entries) :
           n_env < MaxApp /\ Click(type, pos)
    \/ \E msg \in UiMessages : n_env < MaxApp /\ Press(msg)
    \/ \E active \in BOOLEAN : Activate(active)
    \/ FocusLeave
    \/ \E read \in Reads : Tick(read.cb, read.text, read.img)
    \/ Update
    \/ \E w \in 1..Len(workers), cb \in BOOLEAN, set \in BOOLEAN :
           WorkerRun(w, cb, set)

SpecApp == InitApp /\ [][NextApp]_vars

\* ------------------------------------------- texts and images
\* The poller on clipboards that offer a text, an image, both, or an empty
\* text and an image of no bytes; rows are copied back, none is deleted.
NextPoll ==
    \/ \E clip \in ExternalClips : n_env < MaxPoll /\ ExternalCopy(clip)
    \/ Advance
    \/ \E pos \in 1..Len(clipboard_entries) :
           n_env < MaxPoll /\ Click("RequestCopy", pos)
    \/ \E read \in Reads : Tick(read.cb, read.text, read.img)
    \/ Update
    \/ \E w \in 1..Len(workers), cb \in BOOLEAN, set \in BOOLEAN :
           WorkerRun(w, cb, set)

SpecPoll == Init /\ [][NextPoll]_vars

\* ---------------------------------------------- several copy-backs
\* Texts are copied and rows are copied back; every thread gets the clipboard
\* and its write succeeds, at whatever time the thread comes to run.
NextRace ==
    \/ \E clip \in TextClips : ExternalCopy(clip)
    \/ Advance
    \/ \E pos \in 1..Len(clipboard_entries) : Click("RequestCopy", pos)
    \/ \E read \in Reads : Tick(read.cb, read.text, read.img)
    \/ Update
    \/ \E w \in 1..Len(workers) : WorkerRun(w, TRUE, TRUE)

SpecRace == Init /\ [][NextRace]_vars

\* ------------------------------------------------------ scheduling
\* Texts are copied and rows are copied back. The timer keeps running the poll
\* closure, which finds the clipboard readable every time, the main loop
\* handles the messages sent to it, the time passes and every thread spawned
\* comes to run.
NextLive ==
    \/ \E clip \in TextClips : ExternalCopy(clip)
    \/ Advance
    \/ \E pos \in 1..Len(clipboard_entries) : Click("RequestCopy", pos)
    \/ Tick(TRUE, os_clip.text, os_clip.img)
    \/ Update
    \/ \E w \in 1..Len(workers), cb \in BOOLEAN, set \in BOOLEAN :
           WorkerRun(w, cb, set)

Fairness ==
    /\ WF_vars(Tick(TRUE, os_clip.text, os_clip.img))
    /\ WF_vars(Update)
    /\ WF_vars(Advance)
    /\ WF_vars(\E w \in 1..Len(workers), cb \in BOOLEAN, set \in BOOLEAN :
                   WorkerRun(w, cb, set))

SpecLive == Init /\ [][NextLive]_vars /\ Fairness

\* ------------------------------------------- filling the history
\* The k-th text of a run of distinct texts: one character, U+03E8 + k.
FillText(k) == <<1000 + k>>

\* Another program copies the next distinct text, once the text before it has
\* been taken into the history.
FillCopy ==
    /\ Len(dyn_index) < MaxFill
    /\ inbox = <<>>
    /\ os_clip.text # None => tracker.last_text = os_clip.text[1]
    /\ os_clip' = Clip(Some(FillText(Len(dyn_index) + 1)), None, "ext")
    /\ workers' = [w \in DOMAIN workers |-> [workers[w] EXCEPT !.clean = FALSE]]
    /\ deleted_current' = None
    /\ UNCHANGED <<clipboard_entries, dyn_index, tracker, inbox, win_visible,
                   ui_vars, poll_flow, n_env, last_emitted, seen_text, last_op>>

\* Texts are copied and taken into the history, and nothing else happens.
NextPush ==
    \/ FillCopy
    \/ \E read \in Reads : Tick(read.cb, read.text, read.img)
    \/ Update

SpecPush == Init /\ [][NextPush]_vars

\* A button of the front row or of the back row is clicked, when the history
\* is one entry short of its capacity or full.
FillClick(type, pos) ==
    /\ Len(clipboard_entries) >= Capacity - 1
    /\ n_env < MaxFillClicks
    /\ pos \in {1, Len(clipboard_entries)}
    /\ Click(type, pos)

\* The history is filled to its capacity and beyond, with clicks on its rows
\* near the capacity.
NextFill ==
    \/ FillCopy
    \/ \E read \in Reads : Tick(read.cb, read.text, read.img)
    \/ Update
    \/ \E type \in {"RequestCopy", "DeleteItem"}, pos \in 1..Len(clipboard_entries) :
           FillClick(type, pos)
    \/ Advance
    \/ \E w \in 1..Len(workers), cb \in BOOLEAN, set \in BOOLEAN :
           WorkerRun(w, cb, set)

SpecFill == Init /\ [][NextFill]_vars

\* ------------------------------------------------- preview inputs
\* The strings over a, LF and CR of length n.
RECURSIVE StringsOfLen(_)
StringsOfLen(n) ==
    IF n = 0 THEN {<<>>}
    ELSE {<<c>> \o s : c \in {97, LF, CR}, s \in StringsOfLen(n - 1)}

\* n times the character c
Repeat(c, n) == [i \in 1..n |-> c]

\* The texts the previews are checked on: a string of at most MaxLen
\* characters, alone or after 297 times "a" (one byte) or U+00E9 (two bytes),
\* so that the whole is around the 300 of max_chars.
PreviewInputs ==
    {pad \o s : pad \in {<<>>, Repeat(97, max_chars - 3), Repeat(233, max_chars - 3)},
                s \in UNION {StringsOfLen(n) : n \in 0..MaxLen}}

\* The program starts while the clipboard holds one of these texts.
InitPreview ==
    \E text \in PreviewInputs :
        InitWith(Some(SuperV), FALSE, Clip(Some(text), None, "ext"))

NextPreview ==
    \/ \E read \in Reads : Tick(read.cb, read.text, read.img)
    \/ Update

SpecPreview == InitPreview /\ [][NextPreview]_vars


\* ============================================================ claims
\* The step is a run of the poll closure that was given `read`.
TickStep(read) == Tick(read.cb, read.text, read.img)

\* The step puts a new-item event in the queue.
Emits == Len(inbox') = Len(inbox) + 1 /\ inbox'[Len(inbox')].type = "NewItem"

\* The step puts a Text event in the queue.
EmitsText == Emits /\ inbox'[Len(inbox')].content.kind = "Text"

\* The step handles a DeleteItem message; DeleteAt is the position it asks for.
DeleteStep == inbox # <<>> /\ Head(inbox).type = "DeleteItem" /\ Update
DeleteAt == dyn_index[Head(inbox).index]

\* No new-item event waits in the queue.
NoPendingNewItem == \A m \in 1..Len(inbox) : inbox[m].type # "NewItem"

\* C1: after N texts have been copied, detected and inserted one after the
\* other, with nothing deleted, the history holds the last min(N, 50) of them,
\* the newest first: its i-th entry is insertion number N - i + 1.
C1_BoundedHistory ==
    LET n == Len(dyn_index)
    IN  /\ Len(clipboard_entries) = Min(n, Capacity)
        /\ \A i \in 1..Len(clipboard_entries) :
               clipboard_entries[i] =
                   [uid |-> n - i + 1, content |-> TextContent(FillText(n - i + 1))]

\* C1, reached: 51 distinct texts were inserted; 50 entries are left, the back
\* one is insertion 2 and insertion 1 is gone.
C1_Witness ==
    /\ Len(dyn_index) = Capacity + 1
    /\ Len(clipboard_entries) = Capacity
    /\ clipboard_entries[Capacity].content.full = FillText(2)
    /\ \A i \in 1..Len(clipboard_entries) :
           clipboard_entries[i].content.full # FillText(1)

\* C2: whatever the order of the insertions, deletions and copy-backs, the
\* history never holds more than 50 entries once a message has been handled.
C2_LengthAtMostCapacity == Len(clipboard_entries) <= Capacity

\* C2, reached: an insertion into a full history has just evicted the back
\* entry, after a row was deleted or copied back on the way.
C2_Witness ==
    /\ last_op.op = "NewItem"
    /\ last_op.evicted
    /\ Len(clipboard_entries) = Capacity
    /\ n_env > 0

\* C3: a run of the poll closure that reads the text of the last Text event,
\* with no copy-back since that event, emits no Text event.
C3_Dedup ==
    [][\A read \in Reads :
           (TickStep(read) /\ seen_text # None /\ read.text = seen_text)
               => ~EmitsText]_vars

\* C3, reached: the poll closure has just read the text of the last Text event
\* again, outside the suppression window, and emitted nothing.
C3_Witness ==
    /\ last_op.op = "Tick"
    /\ last_op.outcome = "nothing"
    /\ seen_text # None
    /\ last_op.text = seen_text

\* C4: a run of the poll closure less than 1500 ms after the last copy-back
\* emits nothing and leaves the tracker as it is, whatever it is given; a run
\* at 1500 ms or later that reads a non-empty text other than last_text emits
\* the Text event of that text.
C4_SuppressionWindow ==
    [][\A read \in Reads :
           TickStep(read) =>
               /\ tracker.own_age < SuppressMs =>
                      inbox' = inbox /\ tracker' = tracker
               /\ ( /\ tracker.own_age >= SuppressMs
                    /\ setup_done
                    /\ read.cb
                    /\ read.text # None
                    /\ read.text[1] # <<>>
                    /\ read.text[1] # tracker.last_text )
                  => inbox' = Append(inbox, [type |-> "NewItem",
                                             content |-> TextContent(read.text[1])])]_vars

\* C4, reached: a run of the poll closure was skipped inside the window while
\* the clipboard held a non-empty text other than last_text.
C4_Witness ==
    /\ last_op.op = "Tick"
    /\ last_op.outcome = "suppressed"
    /\ tracker.own_age < SuppressMs
    /\ os_clip.text # None
    /\ os_clip.text[1] # <<>>
    /\ os_clip.text[1] # tracker.last_text

\* C5: a run of the poll closure that finds on the clipboard what a copy-back
\* worker wrote, no other program having changed the clipboard since that
\* copy-back was asked for, emits no new-item event.
C5_OwnWriteNotRedetected ==
    [][\A read \in Reads :
           (TickStep(read) /\ os_clip.by = "own") => ~Emits]_vars

\* C6: the preview of a stored text is its own preview.
C6_PreviewIdempotent ==
    \A i \in 1..Len(clipboard_entries) :
        clipboard_entries[i].content.kind = "Text" =>
            compact_preview(clipboard_entries[i].content.display)
                = clipboard_entries[i].content.display

\* C7: the preview of a stored text is a prefix of that text.
C7_PreviewIsPrefix ==
    \A i \in 1..Len(clipboard_entries) :
        clipboard_entries[i].content.kind = "Text" =>
            IsPrefix(clipboard_entries[i].content.display,
                     clipboard_entries[i].content.full)

\* C8: handling a DeleteItem whose position is not below the length of the
\* history leaves the history as it is.
C8_RemovalSafety ==
    [][(DeleteStep /\ DeleteAt >= Len(clipboard_entries))
           => clipboard_entries' = clipboard_entries]_vars

\* C8, reached: a DeleteItem with a position out of range has just been
\* handled, on a history that is not empty.
C8_Witness ==
    /\ last_op.op = "DeleteItem"
    /\ ~last_op.in_range
    /\ clipboard_entries # <<>>

\* C9: handling a DeleteItem whose position p is below the length of the
\* history removes the entry at p and no other: the entries before p stay, and
\* the entries after p move up by one.
C9_RemovalExact ==
    [][(DeleteStep /\ DeleteAt < Len(clipboard_entries)) =>
           /\ Len(clipboard_entries') = Len(clipboard_entries) - 1
           /\ \A i \in 1..Len(clipboard_entries') :
                  clipboard_entries'[i] =
                      IF i <= DeleteAt THEN clipboard_entries[i]
                      ELSE clipboard_entries[i + 1]]_vars

\* C9, reached: of two entries the back one (position 1) has just been
\* deleted, and the front one is what is left.
C9_Witness ==
    /\ last_op.op = "DeleteItem"
    /\ last_op.in_range
    /\ Len(dyn_index) = 2
    /\ Len(clipboard_entries) = 1
    /\ clipboard_entries[1].uid = 2

\* C10 as stated: when the history is not empty and every event has been
\* handled, its front entry is the content of the last new-item event.
C10_FrontIsLastAccepted ==
    (clipboard_entries # <<>> /\ NoPendingNewItem)
        => last_emitted = Some(clipboard_entries[1].content)

\* C10, amended: when every event has been handled and the entry inserted last
\* has not been deleted, that entry is the front entry and holds the content
\* of the last new-item event.
C10_FrontIsLastAcceptedUnlessDeleted ==
    ( /\ NoPendingNewItem
      /\ \E i \in 1..Len(clipboard_entries) :
             clipboard_entries[i].uid = Len(dyn_index) )
        => /\ clipboard_entries[1].uid = Len(dyn_index)
           /\ last_emitted = Some(clipboard_entries[1].content)

\* C10 amended, reached: an entry behind the front one has just been deleted,
\* and the front entry is still the one inserted last.
C10_Witness ==
    /\ last_op.op = "DeleteItem"
    /\ last_op.in_range
    /\ NoPendingNewItem
    /\ clipboard_entries # <<>>
    /\ clipboard_entries[1].uid = Len(dyn_index)
    /\ last_emitted = Some(clipboard_entries[1].content)

\* The step handles a RequestCopy message; CopyAt is the position it asks for.
CopyStep == inbox # <<>> /\ Head(inbox).type = "RequestCopy" /\ Update
CopyAt == dyn_index[Head(inbox).index]

\* The step handles a message other than RequestCopy.
OtherUpdateStep == inbox # <<>> /\ Head(inbox).type # "RequestCopy" /\ Update

\* The step handles a message of the wizard or of the settings.
UiStep ==
    /\ inbox # <<>>
    /\ Head(inbox).type \notin {"NewItem", "DeleteItem", "RequestCopy"}
    /\ Update

\* The step is a run of the thread w.
WorkerStep(w) == \E cb \in BOOLEAN, set \in BOOLEAN : WorkerRun(w, cb, set)

\* The clipboard as a thread leaves it when it has written content.
Written(content, by) ==
    IF content.kind = "Text"
    THEN Clip(Some(content.full), None, by)
    ELSE Clip(None, Some(content.raw), by)

\* C11: while setup_done is false the history is empty, and a run of the poll
\* closure returns before it asks for the clipboard, leaves the tracker as it
\* is and emits nothing; on every path a run of the poll closure returns
\* Continue, so the timer stays.
C11_SetupGate ==
    /\ [](~setup_done => clipboard_entries = <<>>)
    /\ [](poll_flow = "Continue")
    /\ [][\A read \in Reads :
              TickStep(read) =>
                  /\ poll_flow' = "Continue"
                  /\ ~setup_done =>
                         /\ last_op'.outcome = "setup"
                         /\ tracker' = tracker
                         /\ inbox' = inbox
                         /\ clipboard_entries' = clipboard_entries]_vars

\* C11, reached: the poll closure has just run with the setup not complete,
\* outside the suppression window, while the clipboard held a text; nothing
\* was emitted and the history is empty.
C11_Witness ==
    /\ ~setup_done
    /\ last_op.op = "Tick"
    /\ last_op.outcome = "setup"
    /\ last_op.text # None
    /\ ~Suppressed(tracker)
    /\ inbox = <<>>
    /\ clipboard_entries = <<>>

\* C12: a run of a copy-back thread leaves the history, the DynamicIndex
\* values, the tracker and the message queue as they are; the clipboard is left
\* as it is or holds the content the thread captured when it was spawned.
C12_WorkerIsolation ==
    [][\A w \in DOMAIN workers :
           WorkerStep(w) =>
               /\ clipboard_entries' = clipboard_entries
               /\ dyn_index' = dyn_index
               /\ tracker' = tracker
               /\ inbox' = inbox
               /\ os_clip' \in {os_clip, Written(workers[w].content, "own"),
                                Written(workers[w].content, "own_late")}]_vars

\* C12, reached: a thread has just written the text it captured, after the
\* entry it was captured from was deleted and the tracker had moved on to
\* another text.
C12_Witness ==
    /\ last_op.op = "WorkerRun"
    /\ last_op.wrote
    /\ last_op.worker.content.kind = "Text"
    /\ os_clip.text = Some(last_op.worker.content.full)
    /\ \A i \in 1..Len(clipboard_entries) :
           clipboard_entries[i].content # last_op.worker.content
    /\ tracker.last_text # last_op.worker.content.full

\* A step writes the tracker: last_text or last_img_hash changes, or
\* last_own_copy is set anew (the elapsed time falls).
TrackerWritten ==
    \/ tracker'.last_text # tracker.last_text
    \/ tracker'.last_img_hash # tracker.last_img_hash
    \/ tracker'.own_age < tracker.own_age

\* C13: the tracker is written only by a run of the poll closure that emits an
\* event and by a RequestCopy that finds its entry; handling any other message
\* leaves the tracker as it is.
C13_TrackerFrame ==
    [][/\ TrackerWritten =>
              \/ \E read \in Reads : TickStep(read) /\ Emits
              \/ CopyStep /\ CopyAt < Len(clipboard_entries)
       /\ OtherUpdateStep => tracker' = tracker]_vars

\* C13, reached: a message of the settings has just been handled inside the
\* suppression window of a copy-back, and the tracker still holds that
\* copy-back.
C13_Witness ==
    /\ last_op.op = "OpenSettings"
    /\ tracker.last_text # <<>>
    /\ Suppressed(tracker)

\* The step puts an Image event in the queue.
EmitsImage == Emits /\ inbox'[Len(inbox')].content.kind = "Image"

\* The run of the poll closure gets past the setup gate and the suppression
\* window and gets a clipboard handle.
ReadsClipboard(read) == setup_done /\ ~Suppressed(tracker) /\ read.cb

\* The text the run was given is not empty and is not last_text.
ReadNewText(read) ==
    read.text # None /\ read.text[1] # <<>> /\ read.text[1] # tracker.last_text

\* The image the run was given has bytes, and their hash is not last_img_hash.
ReadNewImage(read) ==
    /\ read.img # None
    /\ Len(read.img[1].data) > 0
    /\ calculate_hash(read.img[1].data) # tracker.last_img_hash

\* C14: a run of the poll closure puts at most one event in the queue; a run
\* that reads a non-empty text other than last_text sets last_text to it,
\* emits the Text event of it and leaves last_img_hash as it is, whatever image
\* it could have read.
C14_TextPriority ==
    [][\A read \in Reads :
           TickStep(read) =>
               /\ inbox' = inbox \/ (Emits /\ SubSeq(inbox', 1, Len(inbox)) = inbox)
               /\ (ReadsClipboard(read) /\ ReadNewText(read)) =>
                      /\ tracker'.last_text = read.text[1]
                      /\ inbox' = Append(inbox, [type |-> "NewItem",
                                                 content |-> TextContent(read.text[1])])
                      /\ tracker'.last_img_hash = tracker.last_img_hash]_vars

\* C14, reached: a run has just emitted a Text event while the clipboard also
\* gave it an image with bytes whose hash is not last_img_hash.
C14_Witness ==
    /\ last_op.op = "Tick"
    /\ last_op.outcome = "text"
    /\ last_op.img # None
    /\ Len(last_op.img[1].data) > 0
    /\ calculate_hash(last_op.img[1].data) # tracker.last_img_hash

\* C15: a run of the poll closure that reads the clipboard and no new text
\* emits an Image event and sets last_img_hash to the hash of the image exactly
\* when it reads an image with bytes whose hash is not last_img_hash, and
\* otherwise leaves the tracker and the queue as they are; a run that reads the
\* image the run just before it emitted emits nothing; and no event and no
\* entry holds an empty text or an image of no bytes.
C15_ImageBranch ==
    /\ [][\A read \in Reads :
              TickStep(read) =>
                  /\ (ReadsClipboard(read) /\ ~ReadNewText(read)) =>
                         IF ReadNewImage(read)
                         THEN /\ inbox' = Append(inbox, [type |-> "NewItem",
                                                 content |-> ImageContent(read.img[1])])
                              /\ tracker' = [tracker EXCEPT !.last_img_hash =
                                                calculate_hash(read.img[1].data)]
                         ELSE inbox' = inbox /\ tracker' = tracker
                  /\ ( /\ last_op.op = "Tick"
                       /\ last_op.outcome = "image"
                       /\ read.img = last_op.img ) => ~EmitsImage]_vars
    /\ [](\A m \in 1..Len(inbox) :
              inbox[m].type = "NewItem" =>
                  IF inbox[m].content.kind = "Text"
                  THEN inbox[m].content.full # <<>>
                  ELSE inbox[m].content.raw.data # <<>>)
    /\ [](\A i \in 1..Len(clipboard_entries) :
              IF clipboard_entries[i].content.kind = "Text"
              THEN clipboard_entries[i].content.full # <<>>
              ELSE clipboard_entries[i].content.raw.data # <<>>)

\* C15, reached: a run has just read, and not emitted, the image that the last
\* event was emitted for.
C15_Witness ==
    /\ last_op.op = "Tick"
    /\ last_op.outcome = "nothing"
    /\ last_op.img # None
    /\ last_op.img[1].data # <<>>
    /\ last_emitted = Some(ImageContent(last_op.img[1]))
    /\ tracker.last_img_hash = calculate_hash(last_op.img[1].data)

\* C16: a run of the poll closure that gets no clipboard handle, or neither a
\* text nor an image, emits nothing, leaves the tracker and the history as they
\* are and returns Continue; the run after it emits the event of a new text or
\* of a new image it reads.
C16_AccessFailure ==
    [][\A read \in Reads :
           TickStep(read) =>
               /\ AccessFailed(read.cb, read.text, read.img) =>
                      /\ inbox' = inbox
                      /\ tracker' = tracker
                      /\ clipboard_entries' = clipboard_entries
                      /\ poll_flow' = "Continue"
               /\ (last_op.op = "Tick" /\ last_op.failed /\ read.cb) =>
                      /\ ReadNewText(read) => EmitsText
                      /\ (~ReadNewText(read) /\ ReadNewImage(read)) => EmitsImage]_vars

\* C16, reached: the run after a run that got nothing from the clipboard has
\* just emitted an event.
C16_Witness ==
    /\ last_op.op = "Tick"
    /\ last_op.retry
    /\ last_op.outcome \in {"text", "image"}
    /\ inbox # <<>>
    /\ poll_flow = "Continue"

\* C17: handling a RequestCopy whose position is not below the length of the
\* history leaves the tracker, the window, the threads, the clipboard and the
\* history as they are.
C17_CopyOfNothing ==
    [][(CopyStep /\ CopyAt >= Len(clipboard_entries)) =>
           /\ tracker' = tracker
           /\ win_visible' = win_visible
           /\ workers' = workers
           /\ os_clip' = os_clip
           /\ clipboard_entries' = clipboard_entries]_vars

\* C17, reached: a RequestCopy that found no entry has just been handled while
\* the window was shown and the history was not empty; the window is still
\* shown, no thread waits and the tracker holds no self-write.
C17_Witness ==
    /\ last_op.op = "RequestCopy"
    /\ ~last_op.found
    /\ win_visible
    /\ clipboard_entries # <<>>
    /\ workers = <<>>
    /\ ~Suppressed(tracker)

\* C18: every copy-back thread was spawned with the tracker already holding
\* the self-write of its content and with the window already hidden; so that
\* holds of every thread that writes.
C18_PrimedBeforeSpawn ==
    /\ \A w \in DOMAIN workers : workers[w].primed /\ workers[w].hidden
    /\ last_op.op = "WorkerRun" => last_op.worker.primed /\ last_op.worker.hidden

\* C18, reached: a thread has just written its content, and the tracker still
\* holds the self-write made before the thread was spawned.
C18_Witness ==
    /\ last_op.op = "WorkerRun"
    /\ last_op.wrote
    /\ last_op.worker.primed
    /\ last_op.worker.hidden
    /\ ~win_visible
    /\ Suppressed(tracker)
    /\ os_clip.by = "own"

\* C19: the history changes only when a NewItem or a DeleteItem is handled: a
\* NewItem puts its content in front of the entries there were, less the back
\* one when they were 50; a DeleteItem adds nothing; handling a RequestCopy or
\* a message of the wizard or of the settings leaves the history as it is.
C19_HistoryFrame ==
    [][/\ clipboard_entries' # clipboard_entries =>
              /\ inbox # <<>>
              /\ Head(inbox).type \in {"NewItem", "DeleteItem"}
              /\ Update
              /\ Head(inbox).type = "NewItem" =>
                     /\ clipboard_entries'[1].content = Head(inbox).content
                     /\ Tail(clipboard_entries') =
                            SubSeq(clipboard_entries, 1,
                                   Min(Len(clipboard_entries), Capacity - 1))
              /\ Head(inbox).type = "DeleteItem" =>
                     \A i \in 1..Len(clipboard_entries') :
                         \E j \in 1..Len(clipboard_entries) :
                             clipboard_entries'[i] = clipboard_entries[j]
       /\ (CopyStep \/ UiStep) => clipboard_entries' = clipboard_entries]_vars

\* C19, reached: the back one of two entries has just been copied back; the
\* history still holds the two entries, the copied one at the back.
C19_Witness ==
    /\ last_op.op = "RequestCopy"
    /\ last_op.found
    /\ Len(clipboard_entries) = 2
    /\ Len(dyn_index) = 2
    /\ workers # <<>>
    /\ workers[Len(workers)].content = clipboard_entries[2].content
    /\ clipboard_entries[1].content # clipboard_entries[2].content

\* C20: a DeleteItem removes no entry but the one of the row that sent it, and
\* a RequestCopy copies back no entry but the one of the row that sent it.
C20_PositionalAddressing ==
    [][/\ DeleteStep =>
              \A i \in 1..Len(clipboard_entries) :
                  \/ clipboard_entries[i].uid = Head(inbox).index
                  \/ \E j \in 1..Len(clipboard_entries') :
                         clipboard_entries'[j] = clipboard_entries[i]
       /\ (CopyStep /\ Len(workers') > Len(workers)) =>
              \E i \in 1..Len(clipboard_entries) :
                  /\ clipboard_entries[i].uid = Head(inbox).index
                  /\ workers'[Len(workers')].content = clipboard_entries[i].content]_vars

\* The first lines of a text, at most max_lines of them, joined again.
FirstLinesJoined(text) ==
    LET all == Lines(text)
    IN  JoinLF(SubSeq(all, 1, Min(Len(all), max_lines)))

\* C21: the preview of a stored text has at most 4 lines (3 line feeds) and
\* at most 300 characters, and it is the first 4 lines of the text, joined,
\* whenever these have at most 300 characters, however many bytes they have.
C21_PreviewBounds ==
    \A i \in 1..Len(clipboard_entries) :
        clipboard_entries[i].content.kind = "Text" =>
            LET display == clipboard_entries[i].content.display
                joined  == FirstLinesJoined(clipboard_entries[i].content.full)
            IN  /\ Cardinality(LineFeeds(display)) <= max_lines - 1
                /\ Len(display) <= max_chars
                /\ Len(joined) <= max_chars => display = joined
                /\ Len(joined) > max_chars => display = SubSeq(joined, 1, max_chars)

\* C21, reached: a stored text of exactly 300 characters and more than 300
\* bytes, in more than one line, whose preview is the whole text.
C21_Witness ==
    \E i \in 1..Len(clipboard_entries) :
        /\ clipboard_entries[i].content.kind = "Text"
        /\ Len(clipboard_entries[i].content.full) = max_chars
        /\ ByteLen(clipboard_entries[i].content.full) > max_chars
        /\ LineFeeds(clipboard_entries[i].content.full) # {}
        /\ clipboard_entries[i].content.display = clipboard_entries[i].content.full

\* C22: no two neighbours in the history hold the same text.
C22_NoAdjacentDuplicates ==
    \A i \in 1..(Len(clipboard_entries) - 1) :
        ( /\ clipboard_entries[i].content.kind = "Text"
          /\ clipboard_entries[i + 1].content.kind = "Text" )
            => clipboard_entries[i].content.full # clipboard_entries[i + 1].content.full

\* Every copy-back asked for has been handled and its thread has written, no
\* other program has changed the clipboard since the thread that wrote last
\* was spawned, and the poll closure has emitted no text since the last
\* copy-back was handled.
CopyBacksSettled ==
    /\ workers = <<>>
    /\ \A m \in 1..Len(inbox) : inbox[m].type # "RequestCopy"
    /\ os_clip.by = "own"
    /\ seen_text = None

\* C23: once the copy-backs are settled the clipboard holds the text the
\* tracker holds (the one of the copy-back handled last), and a run of the
\* poll closure emits nothing.
C23_LastCopyBackWins ==
    /\ [](CopyBacksSettled => os_clip.text = Some(tracker.last_text))
    /\ [][\A read \in Reads :
              (TickStep(read) /\ CopyBacksSettled) => ~Emits]_vars

\* C24: while the clipboard holds the content of an entry that was deleted,
\* and no other program has changed the clipboard since, a run of the poll
\* closure emits no event for that content.
C24_DeletedStaysDeleted ==
    [][\A read \in Reads :
           (TickStep(read) /\ deleted_current # None) =>
               ~(Emits /\ inbox'[Len(inbox')].content = deleted_current[1])]_vars

\* The content a clipboard offers, given its text and its image as held: its
\* text when that is not empty, or else its image when that has bytes.
Offer(held) ==
    IF held.text # None /\ held.text[1] # <<>> THEN Some(TextContent(held.text[1]))
    ELSE IF held.img # None /\ held.img[1].data # <<>>
    THEN Some(ImageContent(held.img[1]))
    ELSE None

\* What the clipboard holds: its text and its image.
Held == [text |-> os_clip.text, img |-> os_clip.img]

\* C25: a run of the poll closure that reads all of the clipboard, with the
\* setup complete and outside the suppression window, when another program has
\* put there a non-empty text or image other than the one the clipboard offered
\* at the run before, emits the new-item event of that content.
C25_EveryChangeDetected ==
    [][\A read \in Reads :
           ( /\ TickStep(read)
             /\ ReadsClipboard(read)
             /\ read.text = os_clip.text
             /\ read.img = os_clip.img
             /\ os_clip.by = "ext"
             /\ Offer(Held) # None
             /\ last_op.op = "Tick"
             /\ Offer(last_op.held) # Offer(Held) )
               => inbox' = Append(inbox, [type |-> "NewItem",
                                          content |-> Offer(Held)[1]])]_vars

\* Another program has put the text t on the clipboard, the setup is complete
\* and t is not last_text.
NewOnClipboard(t) ==
    /\ setup_done
    /\ os_clip = Clip(Some(t), None, "ext")
    /\ t # tracker.last_text

\* The front entry of the history holds the text t.
FrontIs(t) ==
    /\ clipboard_entries # <<>>
    /\ clipboard_entries[1].content.kind = "Text"
    /\ clipboard_entries[1].content.full = t

\* C26 as stated: a non-empty text other than last_text that another program
\* has put on the clipboard becomes the front entry of the history, unless the
\* text of the clipboard changes.
C26_EventuallyInFront ==
    \A t \in {TxtA, TxtB} :
        NewOnClipboard(t) ~> (FrontIs(t) \/ os_clip.text # Some(t))

\* C26, amended: it becomes the front entry unless the text of the clipboard
\* changes or a copy-back of an entry that holds this text is handled before
\* the poll closure has emitted it.
C26_EventuallyInFrontUnlessCopiedBack ==
    \A t \in {TxtA, TxtB} :
        NewOnClipboard(t) ~>
            \/ FrontIs(t)
            \/ os_clip.text # Some(t)
            \/ tracker.last_text = t /\ seen_text = None

\* C26 amended, reached: the text another program put on the clipboard while a
\* copy-back thread had still to run has just become the front entry, before
\* two older entries.
C26_Witness ==
    /\ last_op.op = "NewItem"
    /\ os_clip.by = "ext"
    /\ os_clip.text # None
    /\ FrontIs(os_clip.text[1])
    /\ Len(clipboard_entries) = 3
    /\ workers # <<>>
    /\ ~workers[1].clean

\* C27: setup_done never goes back to false, it becomes true only in the
\* handlers of WizardAccept and WizardApplyBinding, which save the keybinding
\* first, and while it is false the page shown is "wizard" or "wizard_custom",
\* in whatever order the queued messages of the widgets are handled.
C27_SetupAndPages ==
    /\ [](~setup_done => current_page \in {"wizard", "wizard_custom"})
    /\ [][/\ setup_done => setup_done'
          /\ (~setup_done /\ setup_done') =>
                 /\ inbox # <<>>
                 /\ Head(inbox).type \in {"WizardAccept", "WizardApplyBinding"}
                 /\ last_op'.op = Head(inbox).type
                 /\ \E io \in BOOLEAN :
                        config_file' = save_keybinding(
                            IF Head(inbox).type = "WizardAccept"
                            THEN SuperV ELSE Head(inbox).binding, io)]_vars

\* The handler of WizardAccept or of WizardApplyBinding runs in this step;
\* the binding it hands to save_keybinding.
CompletesSetup ==
    /\ inbox # <<>>
    /\ Head(inbox).type \in {"WizardAccept", "WizardApplyBinding"}
    /\ last_op'.op = Head(inbox).type

BindingSaved ==
    IF Head(inbox).type = "WizardAccept" THEN SuperV ELSE Head(inbox).binding

\* C28: whenever the setup is complete, current_binding is the keybinding
\* string last persisted by save_keybinding: at the start with a keybinding
\* file that completes the setup, after WizardAccept or WizardApplyBinding has
\* written the file, whatever the file was at the start, and from then on
\* because no other step changes either of the two.
C28_BindingIsPersisted ==
    /\ setup_done => (config_file # None /\ current_binding = config_file[1])
    /\ [][/\ (CompletesSetup /\ config_file' = Some(BindingSaved))
              => (setup_done' /\ current_binding' = config_file'[1])
          /\ ~CompletesSetup => UNCHANGED <<current_binding, config_file>>]_vars

====
